---- MODULE Spec2Model ----
(***************************************************************************)
(* Four desktop file-manager prototypes over one shared filesystem:       *)
(*   "tk"       file_manager.py          (Tkinter FileManager)            *)
(*   "thumb"    files - Copy (2).py      (PyQt6 ModernFileManager)        *)
(*   "explorer" files.py                 (PyQt6 ModernFileExplorer)       *)
(*   "pyside"   files - Copy.py          (PySide6 FileManager)            *)
(* Exactly one of them runs in a behaviour (variable app).  File names   *)
(* are sequences of character codes, paths are sequences of names.       *)
(***************************************************************************)
EXTENDS Integers, Sequences, FiniteSets, TLC

\* ------------------------------------------------------------------ bounds
MaxDepth == 2
MaxNodes == 3
MaxSeedNodes == 2
MaxClip == 2
MaxPasteNodes == 3
MaxCacheNodes == 2
MaxNavNodes == 2

\* ------------------------------------------------------------------ names
\* "a", "A", "B.PNG" and the one-character name '"' as character codes
NameLowerA == <<97>>
NameUpperA == <<65>>
NameBPng == <<66, 46, 80, 78, 71>>
NameQuote == <<34>>
ListNames == {NameLowerA, NameUpperA, NameBPng}
Names == ListNames \cup {NameQuote}

\* str.lower() on one character code
LowerChar(c) == IF c >= 65 /\ c <= 90 THEN c + 32 ELSE c

\* str.lower()
LowerStr(s) == [i \in 1..Len(s) |-> LowerChar(s[i])]

\* Python's str < str : lexicographic on code points
RECURSIVE StrLess(_, _)
StrLess(s, t) ==
  IF t = <<>> THEN FALSE
  ELSE IF s = <<>> THEN TRUE
  ELSE IF s[1] # t[1] THEN s[1] < t[1]
  ELSE StrLess(Tail(s), Tail(t))

\* str.endswith(suffix)
EndsWith(s, suf) ==
  /\ Len(s) >= Len(suf)
  /\ SubSeq(s, Len(s) - Len(suf) + 1, Len(s)) = suf

\* ('.png', '.jpg', '.jpeg', '.bmp', '.gif', '.webp')
ImageSuffixes ==
  { <<46, 112, 110, 103>>, <<46, 106, 112, 103>>, <<46, 106, 112, 101, 103>>,
    <<46, 98, 109, 112>>, <<46, 103, 105, 102>>, <<46, 119, 101, 98, 112>> }

\* pathlib's PurePath.suffix: from the last dot, unless the dot leads or ends the name
Suffix(name) ==
  LET dots == {i \in 1..Len(name) : name[i] = 46}
  IN IF dots = {} THEN <<>>
     ELSE LET i == CHOOSE d \in dots : \A e \in dots : e <= d
          IN IF i > 1 /\ i < Len(name) THEN SubSeq(name, i, Len(name)) ELSE <<>>

\* ------------------------------------------------------------------ paths
Root == <<>>

RECURSIVE PathsUpTo(_)
PathsUpTo(d) ==
  IF d = 0 THEN {Root}
  ELSE LET shorter == PathsUpTo(d - 1)
       IN shorter \cup {Append(p, n) : p \in {q \in shorter : Len(q) = d - 1}, n \in Names}

AllPaths == PathsUpTo(MaxDepth)

\* os.path.join(dir, name) for a plain name
Join(p, n) == Append(p, n)

\* A relative path starts with the component "." : <<Dot>> is ".", and
\* <<Dot, n>> is the path pathlib prints as n.  The platform resolves it
\* against the working directory of the process.
Dot == <<46>>
IsRelative(p) == Len(p) > 0 /\ p[1] = Dot
Cwd == <<NameLowerA>>
Resolve(p) == IF IsRelative(p) THEN Cwd \o Tail(p) ELSE p

\* os.path.dirname / Path.parent: the root is its own parent, and so is "."
Parent(p) ==
  IF p = Root \/ p = <<Dot>> THEN p ELSE SubSeq(p, 1, Len(p) - 1)

\* os.path.basename
Basename(p) == IF p = Root THEN <<>> ELSE p[Len(p)]

IsPrefix(p, q) == Len(p) <= Len(q) /\ SubSeq(q, 1, Len(p)) = p

\* ------------------------------------------------------------------ filesystem
\* kind: "none" (absent), "dir", "file", "link" (dangling symbolic link)
\* size: byte length of a file; img: which decoders read it
\*   "none" neither, "both" Pillow and Qt, "pil" Pillow only, "qt" Qt only
\* readable: a directory that may be listed
NoNode == [kind |-> "none", size |-> 0, img |-> "none", readable |-> TRUE]
DirNode(r) == [kind |-> "dir", size |-> 0, img |-> "none", readable |-> r]
FileNode(sz, im) == [kind |-> "file", size |-> sz, img |-> im, readable |-> TRUE]
LinkNode == [kind |-> "link", size |-> 0, img |-> "none", readable |-> TRUE]

\* the node a path names, once resolved
Node(f, p) == f[Resolve(p)]

Exists(f, p) == Resolve(p) \in DOMAIN f /\ Node(f, p).kind # "none"

\* os.path.isdir
IsDir(f, p) == Resolve(p) \in DOMAIN f /\ Node(f, p).kind = "dir"

\* the names os.listdir / Path.iterdir enumerate
NamesBelow(f, p) ==
  {n \in Names : \E q \in AllPaths : IsPrefix(p, q) /\ q # p /\ Exists(f, q) /\ Basename(q) = n}
ChildNames(f, p) == {n \in Names : Exists(f, Join(p, n))}

\* every order in which the platform may enumerate a set of names
Orders(S) ==
  {s \in [1..Cardinality(S) -> S] : \A i, j \in 1..Cardinality(S) : s[i] = s[j] => i = j}

\* ------------------------------------------------------------------ sorting
\* Python compares the key tuples (bool, str): False < True, then the strings
KeyLess(k1, k2) == k1[1] < k2[1] \/ (k1[1] = k2[1] /\ StrLess(k1[2], k2[2]))

\* list.sort / sorted are stable: an item goes after every item already placed
\* whose key is not greater
InsertStable(s, x, key) ==
  LET n == Cardinality({i \in 1..Len(s) : ~KeyLess(key[x], key[s[i]])})
  IN SubSeq(s, 1, n) \o <<x>> \o SubSeq(s, n + 1, Len(s))

RECURSIVE StableSort(_, _)
StableSort(s, key) ==
  IF s = <<>> THEN <<>>
  ELSE InsertStable(StableSort(SubSeq(s, 1, Len(s) - 1), key), s[Len(s)], key)

\* ------------------------------------------------------------------ state
VARIABLES
  app,              \* which of the four programs is running
  fs,               \* the filesystem: path -> node
  current_path,     \* self.current_path (pyside: the icon view's root)
  tree_rows,        \* tk: the rows of self.tree, each (name, size, type)
  list_items,       \* thumb: the items of self.list_model, each (name, icon, path)
  address_bar,      \* thumb, explorer: the text of self.address_bar, a path
  preview,          \* thumb: the path shown in the preview pane, or NoPreview
  cache,            \* thumb: self.thumb_cache.cache, key -> bitmap
  decode_calls,     \* thumb: runs of _make_thumbnail per key (call counter)
  image_lib,        \* thumb: the module global Image is not None
  clipboard_paths,  \* thumb: self.clipboard_paths
  cut_mode,         \* thumb: self.cut_mode
  status_label,     \* explorer: the text of self.status_label
  last,             \* the handler that ran last, and the paths it listed
  msgs,             \* message boxes shown by the handler that ran last
  uncaught,         \* exception that left the last handler uncaught, or "none"
  launches,         \* paths handed to the system opener by the last handler
  syscalls          \* mutating platform calls made by the last handler

tkVars == <<tree_rows>>
thumbVars == <<list_items, preview, cache, decode_calls, clipboard_paths, cut_mode>>
vars == <<app, fs, current_path, tree_rows, list_items, address_bar, preview, cache,
          decode_calls, image_lib, clipboard_paths, cut_mode, status_label, last, msgs,
          uncaught, launches, syscalls>>

NoPreview == <<"none">>
CannotPreview == <<"Cannot preview">>

\* the status bar: a fixed message about a name, or the counts update_status()
\* computes for the current directory
StatusText(t) == [text |-> t, name |-> <<>>, dirs |-> 0, files |-> 0, path |-> Root]
StatusAbout(t, n) == [text |-> t, name |-> n, dirs |-> 0, files |-> 0, path |-> Root]
EmptyMap == [k \in {} |-> 0]

\* ------------------------------------------------------------------ Tkinter variant
\* f"{size / 1024:.1f} KB": tenths of a KB, correctly rounded, ties to even
\* (a tie is exact in binary floating point: size = 256 mod 512)
KBTenths(size) ==
  LET q == (size * 10) \div 1024
      r == (size * 10) % 1024
  IN IF r > 512 THEN q + 1
     ELSE IF r < 512 THEN q
     ELSE IF q % 2 = 0 THEN q ELSE q + 1

SizeEmpty == [tag |-> "", tenths |-> 0]
SizeNA == [tag |-> "N/A", tenths |-> 0]
SizeKB(size) == [tag |-> "KB", tenths |-> KBTenths(size)]

\* os.path.getsize: "OSError" for a dangling link or a missing path
GetSizeFails(f, p) == f[p].kind \in {"link", "none"}

\* lambda x: (not os.path.isdir(os.path.join(self.current_path, x)), x.lower())
TkSortKeyRaw(f, cp, x) == <<IF IsDir(f, Join(cp, x)) THEN 0 ELSE 1, x>>
TkSortKey(f, cp, x) == <<IF IsDir(f, Join(cp, x)) THEN 0 ELSE 1, LowerStr(x)>>

\* the size column of one row
TkSizeZeroOnError(f, full_path) ==
  IF IsDir(f, full_path) THEN SizeEmpty ELSE SizeKB(f[full_path].size)
TkSize(f, full_path) ==
  IF IsDir(f, full_path) THEN SizeEmpty
  ELSE IF GetSizeFails(f, full_path) THEN SizeNA
  ELSE SizeKB(f[full_path].size)

\* one pass of the for loop: the row inserted for item
TkRowSizedFolders(f, cp, item) ==
  [name |-> item,
   size |-> IF GetSizeFails(f, Join(cp, item)) THEN SizeNA
            ELSE SizeKB(f[Join(cp, item)].size),
   type |-> IF IsDir(f, Join(cp, item)) THEN "Folder" ELSE "File"]
TkRow(f, cp, item) ==
  [name |-> item,
   size |-> TkSize(f, Join(cp, item)),
   type |-> IF IsDir(f, Join(cp, item)) THEN "Folder" ELSE "File"]

\* the exception os.listdir / Path.iterdir raises on path p, or "none"
ListErrorIgnoringMode(f, p) ==
  IF ~Exists(f, p) THEN "FileNotFoundError"
  ELSE IF Node(f, p).kind = "link" THEN "FileNotFoundError"
  ELSE IF Node(f, p).kind = "file" THEN "NotADirectoryError"
  ELSE "none"
ListError(f, p) ==
  IF ~Exists(f, p) THEN "FileNotFoundError"
  ELSE IF Node(f, p).kind = "link" THEN "FileNotFoundError"
  ELSE IF Node(f, p).kind = "file" THEN "NotADirectoryError"
  ELSE IF ~Node(f, p).readable THEN "PermissionError"
  ELSE "none"

\* a message box: the call that shows it, its title, its text, and the
\* exception its text was formatted from ("" when none)
Box(call, title, text, e) == [box |-> call, title |-> title, text |-> text, exc |-> e]

PermissionDeniedBox == Box("showerror", "Error", "Permission Denied", "")

\* refresh_file_list: the tree is cleared, then filled from os.listdir in
\* the platform's enumeration order `order`; only PermissionError is caught
TkRefresh(f, cp, order) ==
  LET err == ListError(f, cp)
      key == [x \in ChildNames(f, cp) |-> TkSortKey(f, cp, x)]
      items == StableSort(order, key)
  IN IF err = "none"
     THEN [rows |-> [i \in 1..Len(items) |-> TkRow(f, cp, items[i])],
           msgs |-> <<>>, uncaught |-> "none"]
     ELSE IF err = "PermissionError"
     THEN [rows |-> <<>>, msgs |-> <<PermissionDeniedBox>>, uncaught |-> "none"]
     ELSE [rows |-> <<>>, msgs |-> <<>>, uncaught |-> err]

\* ------------------------------------------------------------------ platform primitives
\* Each primitive gives the filesystem it leaves and the exception it raises
\* ("none" when it returns normally).
Outcome(f, e) == [fs |-> f, exc |-> e]

Descendants(f, p) == {q \in AllPaths : IsPrefix(p, q) /\ q # p /\ Exists(f, q)}

\* the path q of the subtree at `from`, as it lies under `to`
Rebase(q, from, to) == to \o SubSeq(q, Len(from) + 1, Len(q))

RemoveSubtree(f, p) == [q \in AllPaths |-> IF IsPrefix(p, q) THEN NoNode ELSE f[q]]

\* the first ancestor of p (from the root down) that is no directory, or p
FirstNonDir(f, p) ==
  LET bad == {k \in 0..(Len(p) - 1) : ~IsDir(f, SubSeq(p, 1, k))}
  IN IF bad = {} THEN p ELSE SubSeq(p, 1, CHOOSE k \in bad : \A j \in bad : k <= j)

\* the exception a system call meets while walking to p's parent, or "none"
WalkError(f, p) ==
  LET a == FirstNonDir(f, p)
  IN IF a = p THEN "none"
     ELSE IF f[a].kind = "file" THEN "NotADirectoryError"
     ELSE "FileNotFoundError"

\* os.remove(p)
OsRemove(f, p) ==
  IF WalkError(f, p) # "none" THEN Outcome(f, WalkError(f, p))
  ELSE IF ~Exists(f, p) THEN Outcome(f, "FileNotFoundError")
  ELSE IF IsDir(f, p) THEN Outcome(f, "IsADirectoryError")
  ELSE Outcome([f EXCEPT ![p] = NoNode], "none")

\* shutil.rmtree(p): the entries of a directory are removed one by one in the
\* platform's enumeration order and the first error is raised at once, so
\* what was removed before it stays removed.  The set of possible outcomes.
RECURSIVE RmtreeOutcomes(_, _), RmChildren(_, _, _)
RmtreeOutcomes(f, p) ==
  IF ~Exists(f, p) THEN {Outcome(f, "FileNotFoundError")}
  ELSE IF ~IsDir(f, p) THEN {Outcome(f, "NotADirectoryError")}
  ELSE IF ~f[p].readable THEN {Outcome(f, "PermissionError")}
  ELSE RmChildren(f, p, ChildNames(f, p))

RmChildren(f, p, left) ==
  IF left = {} THEN {Outcome([f EXCEPT ![p] = NoNode], "none")}
  ELSE UNION { LET c == Join(p, n)
                   outs == IF IsDir(f, c) THEN RmtreeOutcomes(f, c)
                           ELSE {OsRemove(f, c)}
               IN UNION { IF o.exc # "none" THEN {o}
                          ELSE RmChildren(o.fs, p, left \ {n}) : o \in outs }
             : n \in left }

\* os.makedirs(p, exist_ok): missing ancestors are created too
OsMakedirs(f, p, exist_ok) ==
  LET a == FirstNonDir(f, p)
  IN IF a # p /\ Exists(f, a)
     THEN Outcome(f, IF f[a].kind = "file" THEN "NotADirectoryError" ELSE "FileNotFoundError")
     ELSE IF Exists(f, p)
     THEN IF exist_ok /\ IsDir(f, p) THEN Outcome(f, "none")
          ELSE Outcome(f, "FileExistsError")
     ELSE Outcome([q \in AllPaths |->
                     IF IsPrefix(q, p) /\ ~Exists(f, q) THEN DirNode(TRUE) ELSE f[q]],
                  "none")

\* os.rename(old, new).  POSIX replaces an existing file, or an existing empty
\* directory by a directory; Windows refuses every existing destination.
OsRename(f, old, new, posix) ==
  IF WalkError(f, old) # "none" THEN Outcome(f, WalkError(f, old))
  ELSE IF ~Exists(f, old) THEN Outcome(f, "FileNotFoundError")
  ELSE IF WalkError(f, new) # "none" THEN Outcome(f, WalkError(f, new))
  ELSE IF new = old THEN Outcome(f, "none")
  ELSE IF IsPrefix(old, new) THEN Outcome(f, "OSError")
  ELSE IF Exists(f, new) /\ ~posix THEN Outcome(f, "FileExistsError")
  ELSE IF Exists(f, new) /\ IsDir(f, old) /\ ~IsDir(f, new)
  THEN Outcome(f, "NotADirectoryError")
  ELSE IF Exists(f, new) /\ IsDir(f, old) /\ ChildNames(f, new) # {}
  THEN Outcome(f, "OSError")
  ELSE IF Exists(f, new) /\ ~IsDir(f, old) /\ IsDir(f, new)
  THEN Outcome(f, "IsADirectoryError")
  ELSE Outcome([q \in AllPaths |->
                  IF IsPrefix(new, q)
                  THEN (IF Rebase(q, new, old) \in AllPaths
                        THEN f[Rebase(q, new, old)] ELSE NoNode)
                  ELSE IF IsPrefix(old, q) THEN NoNode
                  ELSE f[q]],
               "none")

\* shutil.copy2(src, dst): a destination that is a directory receives the file
\* under the source's base name; an existing destination file is overwritten
Copy2Target(f, src, dst) == IF IsDir(f, dst) THEN Join(dst, Basename(src)) ELSE dst

ShutilCopy2(f, src, dst) ==
  LET target == Copy2Target(f, src, dst)
  IN IF WalkError(f, src) # "none" THEN Outcome(f, WalkError(f, src))
     ELSE IF ~Exists(f, src) \/ f[src].kind = "link" THEN Outcome(f, "FileNotFoundError")
     ELSE IF IsDir(f, src) THEN Outcome(f, "IsADirectoryError")
     ELSE IF target = src THEN Outcome(f, "SameFileError")
     ELSE IF WalkError(f, target) # "none" THEN Outcome(f, WalkError(f, target))
     ELSE IF IsDir(f, target) THEN Outcome(f, "IsADirectoryError")
     ELSE Outcome([f EXCEPT ![target] = f[src]], "none")

\* what shutil.copytree can copy of the subtree at src: files, and directories
\* it can list; a dangling link or an unlistable directory is an error that
\* is collected while the rest is still copied
Copyable(f, src, q) ==
  /\ f[q].kind \in {"file", "dir"}
  /\ \A k \in Len(src)..Len(q) :
       LET a == SubSeq(q, 1, k) IN f[a].kind = "dir" => f[a].readable

\* shutil.copytree(src, dst): dst must not exist
ShutilCopytree(f, src, dst) ==
  IF WalkError(f, src) # "none" THEN Outcome(f, WalkError(f, src))
  ELSE IF ~Exists(f, src) THEN Outcome(f, "FileNotFoundError")
  ELSE IF ~IsDir(f, src) THEN Outcome(f, "NotADirectoryError")
  ELSE IF ~f[src].readable THEN Outcome(f, "PermissionError")
  ELSE IF OsMakedirs(f, dst, FALSE).exc # "none"
  THEN Outcome(f, OsMakedirs(f, dst, FALSE).exc)
  ELSE LET g == OsMakedirs(f, dst, FALSE).fs
           sub == Descendants(f, src)
           ok == {q \in sub : Copyable(f, src, q)}
       IN Outcome([q \in AllPaths |->
                     IF IsPrefix(dst, q) /\ q # dst /\ Rebase(q, dst, src) \in ok
                     THEN f[Rebase(q, dst, src)]
                     ELSE g[q]],
                  IF ok = sub THEN "none" ELSE "Error")

\* ------------------------------------------------------------------ thumbnail cache
\* ThumbnailCache((128, 128))
thumb_size == <<128, 128>>

\* A bitmap: a theme icon rendered at thumb_size, or the file's picture scaled
\* to fit thumb_size (content: the file it was decoded from)
ThemePixmap(name) == [src |-> "theme", name |-> name, content |-> NoNode]
ScaledPixmap(node) == [src |-> "file", name |-> "", content |-> node]
NullPixmap == [src |-> "null", name |-> "", content |-> NoNode]

\* Image.open(path) succeeds
PilOpens(f, path) ==
  Exists(f, path) /\ Node(f, path).kind = "file" /\ Node(f, path).img \in {"both", "pil"}

\* not QPixmap(path).isNull()
QtLoads(f, path) ==
  Exists(f, path) /\ Node(f, path).kind = "file" /\ Node(f, path).img \in {"both", "qt"}

\* _make_thumbnail.  image: the Pillow import succeeded (Image is not None);
\* qimg_ok: the QPixmap.fromImage(...) expression of line 83 returns rather
\* than raises (it is inside the try block).
MakeThumbnailImagePlaceholder(f, path, image, qimg_ok) ==
  IF image /\ PilOpens(f, path) /\ qimg_ok /\ QtLoads(f, path)
  THEN ScaledPixmap(Node(f, path))
  ELSE ThemePixmap("image-x-generic")
MakeThumbnail(f, path, image, qimg_ok) ==
  IF ~image THEN ThemePixmap("text-x-generic")
  ELSE IF ~PilOpens(f, path) THEN ThemePixmap("text-x-generic")
  ELSE IF ~qimg_ok THEN ThemePixmap("text-x-generic")
  ELSE IF ~QtLoads(f, path) THEN ThemePixmap("image-x-generic")
  ELSE ScaledPixmap(Node(f, path))

CacheKey(path) == <<path, thumb_size>>

\* ThumbnailCache.get: the cache and the call counts it leaves, and the bitmap
\* it returns.  calls counts the runs of _make_thumbnail per key.
CacheGetNoLookup(c, calls, f, path, image, qimg_ok) ==
  LET key == CacheKey(path)
      pix == MakeThumbnail(f, path, image, qimg_ok)
      n == IF key \in DOMAIN calls THEN calls[key] ELSE 0
  IN [cache |-> [k \in DOMAIN c \cup {key} |-> IF k = key THEN pix ELSE c[k]],
      calls |-> [k \in DOMAIN calls \cup {key} |-> IF k = key THEN n + 1 ELSE calls[k]],
      pix |-> pix]
CacheGetSingleEntry(c, calls, f, path, image, qimg_ok) ==
  LET key == CacheKey(path)
  IN IF key \in DOMAIN c
     THEN [cache |-> c, calls |-> calls, pix |-> c[key]]
     ELSE LET pix == MakeThumbnail(f, path, image, qimg_ok)
          IN [cache |-> [k \in {key} |-> pix],
              calls |-> [k \in {key} |-> 1],
              pix |-> pix]
CacheGet(c, calls, f, path, image, qimg_ok) ==
  LET key == CacheKey(path)
  IN IF key \in DOMAIN c
     THEN [cache |-> c, calls |-> calls, pix |-> c[key]]
     ELSE LET pix == MakeThumbnail(f, path, image, qimg_ok)
          IN [cache |-> [k \in DOMAIN c \cup {key} |-> IF k = key THEN pix ELSE c[k]],
              calls |-> [k \in DOMAIN calls \cup {key} |-> IF k = key THEN 1 ELSE calls[k]],
              pix |-> pix]

\* ------------------------------------------------------------------ thumbnail variant
\* lambda p: (not p.is_dir(), p.name.lower())
ThumbSortKey(f, path, x) == <<IF IsDir(f, Join(path, x)) THEN 0 ELSE 1, LowerStr(x)>>

IsImageName(name) == LowerStr(Suffix(name)) \in ImageSuffixes

\* the for loop of populate_list from entry i on: the items added, threading
\* the thumbnail cache through the calls of get
RECURSIVE PopulateItems(_, _, _, _, _, _, _, _)
PopulateItems(f, path, entries, i, c, calls, image, qimg_ok) ==
  IF i > Len(entries) THEN [items |-> <<>>, cache |-> c, calls |-> calls]
  ELSE LET name == entries[i]
           p == Join(path, name)
           got == IF ~IsDir(f, p) /\ IsImageName(name)
                  THEN CacheGet(c, calls, f, p, image, qimg_ok)
                  ELSE [cache |-> c, calls |-> calls, pix |-> NullPixmap]
           icon == IF IsDir(f, p) THEN ThemePixmap("folder")
                   ELSE IF got.pix.src # "null" THEN got.pix
                   ELSE ThemePixmap("text-x-generic")
           rest == PopulateItems(f, path, entries, i + 1, got.cache, got.calls, image, qimg_ok)
       IN [items |-> <<[name |-> name, icon |-> icon, path |-> p]>> \o rest.items,
           cache |-> rest.cache, calls |-> rest.calls]

ListWarning(e) == Box("warning", "Error", "Could not list directory", e)

\* populate_list(path): the list is cleared; a listing that raises is reported
\* and leaves it empty
PopulateList(f, path, order, c, calls, image, qimg_ok) ==
  LET err == ListError(f, path)
      key == [x \in ChildNames(f, path) |-> ThumbSortKey(f, path, x)]
      entries == StableSort(order, key)
      done == PopulateItems(f, path, entries, 1, c, calls, image, qimg_ok)
  IN IF err # "none"
     THEN [items |-> <<>>, cache |-> c, calls |-> calls, msgs |-> <<ListWarning(err)>>]
     ELSE [items |-> done.items, cache |-> done.cache, calls |-> done.calls, msgs |-> <<>>]

\* ------------------------------------------------------------------ initial filesystems
\* the nodes a filesystem starts with: a listable and an unlistable directory,
\* a 5-byte text file, a 256-byte picture both decoders read, a 10-byte
\* picture only Pillow reads, a dangling link
InitNodes ==
  {DirNode(TRUE), DirNode(FALSE), FileNode(5, "none"), FileNode(256, "both"),
   FileNode(10, "pil"), LinkNode}

\* the paths whose components all lie in names
PathsOver(names) == {p \in AllPaths : \A i \in 1..Len(p) : p[i] \in names}

\* the prefix-closed sets of at most k such paths below the root
RECURSIVE Shapes(_, _)
Shapes(k, names) ==
  IF k = 0 THEN {{}}
  ELSE LET smaller == Shapes(k - 1, names)
       IN smaller \cup
          UNION { {S \cup {p} : p \in {q \in PathsOver(names) \ {Root} :
                                         Parent(q) \in S \cup {Root}}}
                  : S \in smaller }

\* every filesystem of at most k nodes below the root, named from names
FilesystemsUpTo(k, names) ==
  UNION { { [p \in AllPaths |-> IF p = Root THEN DirNode(TRUE)
                                ELSE IF p \in S THEN a[p] ELSE NoNode]
            : a \in {b \in [S -> InitNodes] :
                       \A p \in S : Parent(p) # Root => b[Parent(p)].kind = "dir"} }
          : S \in Shapes(k, names) }

InitFilesystems == FilesystemsUpTo(MaxNodes, ListNames)

\* the filesystems the file-operation specification starts from: no entry
\* carries a picture's name, so the thumbnail cache stays out of the way
SeedNames == {NameLowerA, NameUpperA}
SeedFilesystems == FilesystemsUpTo(MaxSeedNodes, SeedNames)

Dirs(f) == {p \in AllPaths : IsDir(f, p)}

\* the filesystem holds at most MaxNodes entries below the root
WithinNodes(f) == Cardinality({p \in AllPaths : Exists(f, p)}) <= MaxNodes + 1

\* ------------------------------------------------------------------ environment
\* what is kept of the handler that ran last: its name, the directories it
\* listed, and what it read from the user (the item acted on, the text typed,
\* the answer to a question box)
Ran(op, listed) == [op |-> op, listed |-> listed, input |-> <<>>]
RanWith(op, listed, input) == [op |-> op, listed |-> listed, input |-> <<input>>]

\* another process removes the entry at p (with everything below it)
ExternalRemove(p) ==
  /\ p # Root /\ Exists(fs, p)
  /\ fs' = RemoveSubtree(fs, p)
  /\ last' = Ran("external", <<>>)
  /\ msgs' = <<>> /\ uncaught' = "none" /\ launches' = <<>> /\ syscalls' = <<>>
  /\ UNCHANGED <<app, current_path, address_bar, image_lib, status_label, tkVars, thumbVars>>

\* another process rewrites the file at p: its bytes become those of node
ExternalModify(p, node) ==
  /\ Exists(fs, p) /\ fs[p].kind = "file"
  /\ node.kind = "file" /\ node # fs[p]
  /\ fs' = [fs EXCEPT ![p] = node]
  /\ last' = Ran("external", <<>>)
  /\ msgs' = <<>> /\ uncaught' = "none" /\ launches' = <<>> /\ syscalls' = <<>>
  /\ UNCHANGED <<app, current_path, address_bar, image_lib, status_label, tkVars, thumbVars>>

\* ------------------------------------------------------------------ the system opener
\* The shell reads the command line  xdg-open "<path>"  that os.system is
\* given: a double quote inside the path ends the quoted word.  With an odd
\* number of them the line is a syntax error and nothing is run; with an even
\* number the opener receives the path without them.
QuotesIn(name) == Cardinality({i \in 1..Len(name) : name[i] = 34})

RECURSIVE QuoteCount(_)
QuoteCount(path) ==
  IF path = <<>> THEN 0 ELSE QuotesIn(Head(path)) + QuoteCount(Tail(path))

IsNoQuote(c) == c # 34
Unquoted(path) == [i \in 1..Len(path) |-> SelectSeq(path[i], IsNoQuote)]

\* os.system(f'xdg-open "{path}"'): the arguments the opener is started with
SystemOpen(path) ==
  IF QuoteCount(path) % 2 = 1 THEN <<>> ELSE <<Unquoted(path)>>

\* open_with_default_app(path) and the like; shell: the platform is not
\* Windows, so the command goes through os.system rather than os.startfile
OpenWithDefaultApp(path, shell) == IF shell THEN SystemOpen(path) ELSE <<path>>

\* os.system returns the exit status and never raises; os.startfile raises
\* OSError when the file cannot be opened
OpenRaises(shell, open_ok) == ~shell /\ ~open_ok

\* ------------------------------------------------------------------ Tkinter handlers
\* refresh_file_list() on directory cp, as a step
TkRefreshOutcomes(f, cp) ==
  {TkRefresh(f, cp, order) : order \in Orders(ChildNames(f, cp))}

TkRefreshStep(cp) ==
  \E r \in TkRefreshOutcomes(fs, cp) :
    tree_rows' = r.rows /\ msgs' = r.msgs /\ uncaught' = r.uncaught

\* __init__: current_path = os.getcwd(), then refresh_file_list()
TkInit ==
  /\ app = "tk"
  /\ current_path \in Dirs(fs)
  /\ \E r \in TkRefreshOutcomes(fs, current_path) :
       tree_rows = r.rows /\ msgs = r.msgs /\ uncaught = r.uncaught
  /\ last = Ran("__init__", <<current_path>>)
  /\ launches = <<>> /\ syscalls = <<>>
  /\ list_items = <<>> /\ address_bar = Root /\ preview = NoPreview
  /\ cache = EmptyMap /\ decode_calls = EmptyMap /\ image_lib = TRUE
  /\ clipboard_paths = <<>> /\ cut_mode = FALSE
  /\ status_label = StatusText("")

\* go_up
TkGoUp ==
  /\ app = "tk"
  /\ LET parent_path == Parent(current_path)
     IN IF parent_path # current_path
        THEN /\ current_path' = parent_path
             /\ TkRefreshStep(parent_path)
             /\ last' = Ran("go_up", <<parent_path>>)
        ELSE /\ UNCHANGED <<current_path, tree_rows>>
             /\ msgs' = <<>> /\ uncaught' = "none"
             /\ last' = Ran("go_up", <<>>)
  /\ launches' = <<>> /\ syscalls' = <<>>
  /\ UNCHANGED <<app, fs, address_bar, image_lib, status_label, thumbVars>>

TkOpenFailedBox == Box("showerror", "Error", "Could not open file", "OSError")

\* on_double_click on row sel (0: nothing is selected, selection()[0] raises);
\* open_ok: the system opener could be started
TkDoubleClick(sel, open_ok) ==
  /\ app = "tk"
  /\ IF sel = 0
     THEN /\ uncaught' = "IndexError" /\ msgs' = <<>> /\ launches' = <<>>
          /\ last' = Ran("on_double_click", <<>>)
          /\ UNCHANGED <<current_path, tree_rows>>
     ELSE LET full_path == Join(current_path, tree_rows[sel].name)
          IN IF IsDir(fs, full_path)
             THEN /\ current_path' = full_path
                  /\ TkRefreshStep(full_path)
                  /\ launches' = <<>>
                  /\ last' = RanWith("on_double_click", <<full_path>>, [item |-> full_path])
             ELSE /\ launches' = <<full_path>>
                  /\ msgs' = IF open_ok THEN <<>> ELSE <<TkOpenFailedBox>>
                  /\ uncaught' = "none"
                  /\ last' = RanWith("on_double_click", <<>>, [item |-> full_path])
                  /\ UNCHANGED <<current_path, tree_rows>>
  /\ syscalls' = <<>>
  /\ UNCHANGED <<app, fs, address_bar, image_lib, status_label, thumbVars>>

\* ------------------------------------------------------------------ thumbnail variant handlers
\* Path.home()
Home == <<NameLowerA>>

Call(op, src, dst, exc) == [op |-> op, src |-> src, dst |-> dst, exc |-> exc]
Warning(title, e) == Box("warning", title, "", e)

\* what populate_list(path) can do on filesystem f: one outcome for every
\* enumeration order of os.listdir and every outcome of line 83
PopulateOutcomes(f, path, c, calls, image) ==
  {PopulateList(f, path, order, c, calls, image, qimg_ok) :
     order \in Orders(ChildNames(f, path)), qimg_ok \in BOOLEAN}

\* populate_list(path) on filesystem f, as a step; before: the boxes the
\* handler has shown so far
PopulateStep(f, path, before) ==
  \E r \in PopulateOutcomes(f, path, cache, decode_calls, image_lib) :
    /\ list_items' = r.items
    /\ cache' = r.cache
    /\ decode_calls' = r.calls
    /\ msgs' = before \o r.msgs

\* str.strip() on one name at the end of the text: trailing blanks go
RECURSIVE StripName(_)
StripName(n) ==
  IF n # <<>> /\ n[Len(n)] = 32 THEN StripName(SubSeq(n, 1, Len(n) - 1)) ELSE n

\* self.address_bar.text().strip(): a text that begins with "/" or "."
\* loses the blanks after its last name; a last name of blanks only leaves
\* the directory before it, with a trailing separator
StripText(text) ==
  IF text = <<>> THEN text
  ELSE LET front == SubSeq(text, 1, Len(text) - 1)
           name == StripName(text[Len(text)])
       IN IF name = <<>> THEN front ELSE Append(front, name)

\* the text of a path with one blank typed after it
Padded(p) == IF p = Root THEN <<<<32>>>> ELSE [p EXCEPT ![Len(p)] = Append(@, 32)]

\* change_directory(path)
ChangeDirectory(path) ==
  /\ current_path' = path
  /\ address_bar' = path
  /\ PopulateStep(fs, path, <<>>)

\* __init__: the window opens on the home directory
ThumbInit ==
  /\ app = "thumb"
  /\ IsDir(fs, Home)
  /\ current_path = Home /\ address_bar = Home
  /\ image_lib \in BOOLEAN
  /\ \E r \in PopulateOutcomes(fs, Home, EmptyMap, EmptyMap, image_lib) :
       list_items = r.items /\ cache = r.cache /\ decode_calls = r.calls
       /\ msgs = r.msgs
  /\ last = Ran("__init__", <<Home>>)
  /\ uncaught = "none" /\ launches = <<>> /\ syscalls = <<>>
  /\ tree_rows = <<>> /\ preview = NoPreview
  /\ clipboard_paths = <<>> /\ cut_mode = FALSE
  /\ status_label = StatusText("")

\* on_tree_clicked: the tree shows every entry below the home directory
ThumbTreeClicked(path) ==
  /\ app = "thumb"
  /\ Exists(fs, path) /\ IsPrefix(Home, path) /\ path # Home
  /\ ChangeDirectory(path)
  /\ last' = Ran("on_tree_clicked", <<path>>)
  /\ uncaught' = "none" /\ launches' = <<>> /\ syscalls' = <<>>
  /\ UNCHANGED <<app, fs, image_lib, status_label, tkVars, preview, clipboard_paths, cut_mode>>

\* on_address_entered with `text` typed into the address bar
ThumbAddressEntered(text) ==
  /\ app = "thumb"
  /\ LET path == StripText(text)
     IN IF IsDir(fs, path)
        THEN /\ ChangeDirectory(path)
             /\ last' = RanWith("on_address_entered", <<path>>, [text |-> text])
        ELSE /\ msgs' = <<Box("warning", "Path error", "Path not found", "")>>
             /\ address_bar' = text
             /\ last' = RanWith("on_address_entered", <<>>, [text |-> text])
             /\ UNCHANGED <<current_path, list_items, cache, decode_calls>>
  /\ uncaught' = "none" /\ launches' = <<>> /\ syscalls' = <<>>
  /\ UNCHANGED <<app, fs, image_lib, status_label, tkVars, preview, clipboard_paths, cut_mode>>

\* go_up
ThumbGoUp ==
  /\ app = "thumb"
  /\ ChangeDirectory(Parent(current_path))
  /\ last' = Ran("go_up", <<Parent(current_path)>>)
  /\ uncaught' = "none" /\ launches' = <<>> /\ syscalls' = <<>>
  /\ UNCHANGED <<app, fs, image_lib, status_label, tkVars, preview, clipboard_paths, cut_mode>>

\* refresh
ThumbRefresh ==
  /\ app = "thumb"
  /\ PopulateStep(fs, current_path, <<>>)
  /\ last' = Ran("refresh", <<current_path>>)
  /\ uncaught' = "none" /\ launches' = <<>> /\ syscalls' = <<>>
  /\ UNCHANGED <<app, fs, current_path, address_bar, image_lib, status_label, tkVars, preview,
                 clipboard_paths, cut_mode>>

\* path.lower().endswith(('.png', ...)) in open_item
EndsWithImageSuffix(path) ==
  path # Root /\ \E suf \in ImageSuffixes : EndsWith(LowerStr(Basename(path)), suf)

\* open_item on item i (double click, or Open in the context menu)
ThumbOpenItem(i, open_ok, shell) ==
  /\ app = "thumb"
  /\ i \in 1..Len(list_items)
  /\ LET path == list_items[i].path
     IN IF IsDir(fs, path)
        THEN /\ ChangeDirectory(path)
             /\ last' = RanWith("open_item", <<path>>, [item |-> path])
             /\ launches' = <<>>
             /\ UNCHANGED preview
        ELSE IF EndsWithImageSuffix(path) /\ QtLoads(fs, path)
        THEN /\ preview' = path
             /\ msgs' = <<>> /\ launches' = <<>>
             /\ last' = RanWith("open_item", <<>>, [item |-> path])
             /\ UNCHANGED <<current_path, address_bar, list_items, cache, decode_calls>>
        ELSE /\ launches' = OpenWithDefaultApp(path, shell)
             /\ msgs' = IF OpenRaises(shell, open_ok)
                        THEN <<Warning("Open failed", "OSError")>> ELSE <<>>
             /\ last' = RanWith("open_item", <<>>, [item |-> path])
             /\ UNCHANGED <<current_path, address_bar, list_items, cache, decode_calls,
                            preview>>
  /\ uncaught' = "none" /\ syscalls' = <<>>
  /\ UNCHANGED <<app, fs, image_lib, status_label, tkVars, clipboard_paths, cut_mode>>

\* Copy in the context menu of item i
ThumbCopy(i) ==
  /\ app = "thumb"
  /\ i \in 1..Len(list_items)
  /\ clipboard_paths' = <<list_items[i].path>>
  /\ cut_mode' = FALSE
  /\ last' = Ran("copy", <<>>)
  /\ msgs' = <<>> /\ uncaught' = "none" /\ launches' = <<>> /\ syscalls' = <<>>
  /\ UNCHANGED <<app, fs, current_path, address_bar, image_lib, status_label, tkVars, list_items,
                 preview, cache, decode_calls>>

\* rename_item on item i; the dialog returns (new_name, ok), "" for no text
ThumbRenameItem(i, new_name, ok, posix) ==
  /\ app = "thumb"
  /\ i \in 1..Len(list_items)
  /\ LET old_path == list_items[i].path
         new_path == Join(Parent(old_path), new_name)
         r == OsRename(fs, old_path, new_path, posix)
     IN IF ok /\ new_name # <<>>
        THEN /\ fs' = r.fs
             /\ syscalls' = <<Call("rename", old_path, new_path, r.exc)>>
             /\ IF r.exc = "none"
                THEN /\ PopulateStep(r.fs, current_path, <<>>)
                     /\ last' = Ran("rename_item", <<current_path>>)
                ELSE /\ msgs' = <<Warning("Rename failed", r.exc)>>
                     /\ last' = Ran("rename_item", <<>>)
                     /\ UNCHANGED <<list_items, cache, decode_calls>>
        ELSE /\ msgs' = <<>> /\ syscalls' = <<>>
             /\ last' = Ran("rename_item", <<>>)
             /\ UNCHANGED <<fs, list_items, cache, decode_calls>>
  /\ uncaught' = "none" /\ launches' = <<>>
  /\ UNCHANGED <<app, current_path, address_bar, image_lib, status_label, tkVars, preview,
                 clipboard_paths, cut_mode>>

\* the platform call delete_item makes for path, with its possible outcomes
DeleteOutcomesMissingOk(f, path) ==
  IF ~Exists(f, path) THEN {Outcome(f, "none")}
  ELSE IF IsDir(f, path) THEN RmtreeOutcomes(f, path) ELSE {OsRemove(f, path)}
DeleteOutcomes(f, path) ==
  IF IsDir(f, path) THEN RmtreeOutcomes(f, path) ELSE {OsRemove(f, path)}
DeleteCall(f, path) == IF IsDir(f, path) THEN "rmtree" ELSE "remove"

\* delete_item on item i; yes: the answer to the confirmation box
ThumbDeleteItem(i, yes) ==
  /\ app = "thumb"
  /\ i \in 1..Len(list_items)
  /\ LET path == list_items[i].path
     IN IF yes
        THEN \E r \in DeleteOutcomes(fs, path) :
               /\ fs' = r.fs
               /\ syscalls' = <<Call(DeleteCall(fs, path), path, path, r.exc)>>
               /\ IF r.exc = "none"
                  THEN /\ PopulateStep(r.fs, current_path, <<>>)
                       /\ last' = RanWith("delete_item", <<current_path>>,
                                          [item |-> path, yes |-> yes])
                  ELSE /\ msgs' = <<Warning("Delete failed", r.exc)>>
                       /\ last' = RanWith("delete_item", <<>>, [item |-> path, yes |-> yes])
                       /\ UNCHANGED <<list_items, cache, decode_calls>>
        ELSE /\ msgs' = <<>> /\ syscalls' = <<>>
             /\ last' = RanWith("delete_item", <<>>, [item |-> path, yes |-> yes])
             /\ UNCHANGED <<fs, list_items, cache, decode_calls>>
  /\ uncaught' = "none" /\ launches' = <<>>
  /\ UNCHANGED <<app, current_path, address_bar, image_lib, status_label, tkVars, preview,
                 clipboard_paths, cut_mode>>

\* create_folder; the dialog returns (name, ok)
ThumbCreateFolder(name, ok) ==
  /\ app = "thumb"
  /\ Join(current_path, name) \in AllPaths
  /\ LET path == Join(current_path, name)
         r == OsMakedirs(fs, path, FALSE)
     IN IF ok /\ name # <<>>
        THEN /\ WithinNodes(r.fs)
             /\ fs' = r.fs
             /\ syscalls' = <<Call("makedirs", path, path, r.exc)>>
             /\ IF r.exc = "none"
                THEN /\ PopulateStep(r.fs, current_path, <<>>)
                     /\ last' = Ran("create_folder", <<current_path>>)
                ELSE /\ msgs' = <<Warning("Create failed", r.exc)>>
                     /\ last' = Ran("create_folder", <<>>)
                     /\ UNCHANGED <<list_items, cache, decode_calls>>
        ELSE /\ msgs' = <<>> /\ syscalls' = <<>>
             /\ last' = Ran("create_folder", <<>>)
             /\ UNCHANGED <<fs, list_items, cache, decode_calls>>
  /\ uncaught' = "none" /\ launches' = <<>>
  /\ UNCHANGED <<app, current_path, address_bar, image_lib, status_label, tkVars, preview,
                 clipboard_paths, cut_mode>>

\* shutil.move(src, dst): into dst when dst is a directory; os.rename, and
\* when that raises, the link is made anew, or the source is copied and then
\* deleted
CopyThenDelete(copied, removed) ==
  IF copied.exc # "none" THEN copied ELSE Outcome(removed, "none")

\* os.symlink(os.readlink(src), real_dst); os.unlink(src)
LinkAnew(f, src, real_dst) ==
  IF WalkError(f, real_dst) # "none" THEN Outcome(f, WalkError(f, real_dst))
  ELSE IF Exists(f, real_dst) THEN Outcome(f, "FileExistsError")
  ELSE Outcome([f EXCEPT ![real_dst] = f[src], ![src] = NoNode], "none")

MoveFallback(f, src, real_dst, renamed) ==
  IF renamed.exc = "none" THEN renamed
  ELSE IF f[src].kind = "link" THEN LinkAnew(f, src, real_dst)
  ELSE IF IsDir(f, src)
  THEN IF IsPrefix(src, real_dst) THEN Outcome(f, "Error")
       ELSE CopyThenDelete(ShutilCopytree(f, src, real_dst),
                           RemoveSubtree(ShutilCopytree(f, src, real_dst).fs, src))
  ELSE CopyThenDelete(ShutilCopy2(f, src, real_dst),
                      [ShutilCopy2(f, src, real_dst).fs EXCEPT ![src] = NoNode])

ShutilMove(f, src, dst, posix) ==
  LET real_dst == IF IsDir(f, dst) THEN Join(dst, Basename(src)) ELSE dst
  IN IF IsDir(f, dst) /\ src = dst THEN OsRename(f, src, dst, posix)
     ELSE IF IsDir(f, dst) /\ Exists(f, real_dst) /\ f[real_dst].kind # "link"
     THEN Outcome(f, "Error")
     ELSE MoveFallback(f, src, real_dst, OsRename(f, src, real_dst, posix))

\* one pass of the for loop of paste(): the call made for src
PasteCall(f, src, cut) ==
  IF cut THEN "move" ELSE IF IsDir(f, src) THEN "copytree" ELSE "copy2"

PasteOneMoving(f, src, dest, cut, posix) == ShutilMove(f, src, dest, posix)
PasteOne(f, src, dest, cut, posix) ==
  IF cut THEN ShutilMove(f, src, dest, posix)
  ELSE IF IsDir(f, src) THEN ShutilCopytree(f, src, dest)
  ELSE ShutilCopy2(f, src, dest)

\* the for loop of paste() from clipboard entry i on: each failure is reported
\* by its own box and the loop goes on with the next path
RECURSIVE PasteLoop(_, _, _, _, _, _)
PasteLoopRetrying(f, clip, i, cp, cut, posix) ==
  IF i > Len(clip) THEN [fs |-> f, msgs |-> <<>>, calls |-> <<>>]
  ELSE LET src == clip[i]
           dest == Join(cp, Basename(src))
           first == PasteOne(f, src, dest, cut, posix)
           r == IF first.exc = "none" THEN first ELSE PasteOne(first.fs, src, dest, cut, posix)
           rest == PasteLoop(r.fs, clip, i + 1, cp, cut, posix)
           again == IF first.exc = "none" THEN <<>>
                    ELSE <<Call(PasteCall(f, src, cut), src, dest, first.exc)>>
       IN [fs |-> rest.fs,
           msgs |-> (IF r.exc = "none" THEN <<>> ELSE <<Warning("Paste failed", r.exc)>>)
                    \o rest.msgs,
           calls |-> again \o <<Call(PasteCall(f, src, cut), src, dest, r.exc)>> \o rest.calls]
PasteLoopAllOrNothing(f, clip, i, cp, cut, posix) ==
  IF i > Len(clip) THEN [fs |-> f, msgs |-> <<>>, calls |-> <<>>]
  ELSE LET src == clip[i]
           dest == Join(cp, Basename(src))
           r == PasteOne(f, src, dest, cut, posix)
           rest == PasteLoop(r.fs, clip, i + 1, cp, cut, posix)
       IN [fs |-> IF r.exc = "none" /\ rest.msgs = <<>> THEN rest.fs ELSE f,
           msgs |-> (IF r.exc = "none" THEN <<>> ELSE <<Warning("Paste failed", r.exc)>>)
                    \o rest.msgs,
           calls |-> <<Call(PasteCall(f, src, cut), src, dest, r.exc)>> \o rest.calls]
PasteLoop(f, clip, i, cp, cut, posix) ==
  IF i > Len(clip) THEN [fs |-> f, msgs |-> <<>>, calls |-> <<>>]
  ELSE LET src == clip[i]
           dest == Join(cp, Basename(src))
           r == PasteOne(f, src, dest, cut, posix)
           rest == PasteLoop(r.fs, clip, i + 1, cp, cut, posix)
       IN [fs |-> rest.fs,
           msgs |-> (IF r.exc = "none" THEN <<>> ELSE <<Warning("Paste failed", r.exc)>>)
                    \o rest.msgs,
           calls |-> <<Call(PasteCall(f, src, cut), src, dest, r.exc)>> \o rest.calls]

\* everything paste() may write lies within the modelled depth
PasteFits(f, clip, cp) ==
  \A i \in 1..Len(clip) :
    /\ clip[i] # Root
    /\ Len(cp) < MaxDepth
    /\ \A q \in Descendants(f, clip[i]) : Len(cp) + 1 + Len(q) - Len(clip[i]) <= MaxDepth
    /\ LET dest == Join(cp, Basename(clip[i]))
           made == \E j \in 1..(i - 1) :
                     Basename(clip[j]) = Basename(clip[i]) /\ IsDir(f, clip[j])
       IN (clip[i] # dest /\ (IsDir(f, dest) \/ made)) => Len(cp) + 2 <= MaxDepth

\* paste()
ThumbPaste(posix) ==
  /\ app = "thumb"
  /\ PasteFits(fs, clipboard_paths, current_path)
  /\ IF clipboard_paths = <<>>
     THEN /\ msgs' = <<>> /\ syscalls' = <<>>
          /\ last' = Ran("paste", <<>>)
          /\ UNCHANGED <<fs, list_items, cache, decode_calls, clipboard_paths, cut_mode>>
     ELSE LET r == PasteLoop(fs, clipboard_paths, 1, current_path, cut_mode, posix)
          IN /\ WithinNodes(r.fs)
             /\ fs' = r.fs
             /\ syscalls' = r.calls
             /\ clipboard_paths' = <<>>
             /\ cut_mode' = FALSE
             /\ PopulateStep(r.fs, current_path, r.msgs)
             /\ last' = Ran("paste", <<current_path>>)
  /\ uncaught' = "none" /\ launches' = <<>>
  /\ UNCHANGED <<app, current_path, address_bar, image_lib, status_label, tkVars, preview>>

\* ------------------------------------------------------------------ explorer variant (files.py)
\* update_status() with no message: the folder and file counts of the current
\* directory, or the path alone when it cannot be listed
StatusCounts(f, cp) ==
  IF ListError(f, cp) # "none"
  THEN [text |-> "Current", name |-> <<>>, dirs |-> 0, files |-> 0, path |-> cp]
  ELSE LET items == ChildNames(f, cp)
           dirs == Cardinality({n \in items : IsDir(f, Join(cp, n))})
       IN [text |-> "folders|files|Current", name |-> <<>>, dirs |-> dirs,
           files |-> Cardinality(items) - dirs, path |-> cp]

Critical(text, e) == Box("critical", "Error", text, e)

\* __init__ and setup_ui
ExplorerInit ==
  /\ app = "explorer"
  /\ IsDir(fs, Home)
  /\ current_path = Home /\ address_bar = Home
  /\ status_label = StatusText("Ready")
  /\ last = Ran("__init__", <<>>)
  /\ msgs = <<>> /\ uncaught = "none" /\ launches = <<>> /\ syscalls = <<>>
  /\ tree_rows = <<>> /\ list_items = <<>> /\ preview = NoPreview
  /\ cache = EmptyMap /\ decode_calls = EmptyMap /\ image_lib = TRUE
  /\ clipboard_paths = <<>> /\ cut_mode = FALSE

\* go_up
ExplorerGoUp ==
  /\ app = "explorer"
  /\ LET parent == Parent(current_path)
     IN IF parent # current_path
        THEN /\ current_path' = parent
             /\ address_bar' = parent
             /\ status_label' = StatusCounts(fs, parent)
        ELSE UNCHANGED <<current_path, address_bar, status_label>>
  /\ last' = Ran("go_up", <<>>)
  /\ msgs' = <<>> /\ uncaught' = "none" /\ launches' = <<>> /\ syscalls' = <<>>
  /\ UNCHANGED <<app, fs, image_lib, tkVars, thumbVars>>

\* on_item_double_clicked on the entry at path (an entry the view shows)
ExplorerDoubleClicked(path, open_ok, shell) ==
  /\ app = "explorer"
  /\ Exists(fs, path) /\ path # Root /\ Parent(path) = Resolve(current_path)
  /\ IF IsDir(fs, path)
     THEN /\ current_path' = path
          /\ address_bar' = path
          /\ status_label' = StatusCounts(fs, path)
          /\ msgs' = <<>> /\ launches' = <<>>
     ELSE /\ launches' = OpenWithDefaultApp(path, shell)
          /\ msgs' = IF OpenRaises(shell, open_ok)
                     THEN <<Box("warning", "Error", "Could not open file", "OSError")>>
                     ELSE <<>>
          /\ UNCHANGED <<current_path, address_bar, status_label>>
  /\ last' = RanWith("on_item_double_clicked", <<>>, [item |-> path])
  /\ uncaught' = "none" /\ syscalls' = <<>>
  /\ UNCHANGED <<app, fs, image_lib, tkVars, thumbVars>>

\* on_tree_clicked on the entry at path: the tree shows every entry from
\* the root down, files included
ExplorerTreeClicked(path) ==
  /\ app = "explorer"
  /\ Exists(fs, path) /\ path \in AllPaths
  /\ IF IsDir(fs, path)
     THEN /\ current_path' = path
          /\ address_bar' = path
          /\ status_label' = StatusCounts(fs, path)
     ELSE UNCHANGED <<current_path, address_bar, status_label>>
  /\ last' = RanWith("on_tree_clicked", <<>>, [item |-> path])
  /\ msgs' = <<>> /\ uncaught' = "none" /\ launches' = <<>> /\ syscalls' = <<>>
  /\ UNCHANGED <<app, fs, image_lib, tkVars, thumbVars>>

InvalidPathBox ==
  Box("warning", "Invalid Path",
      "The specified path does not exist or is not a directory.", "")

\* navigate_to_path with `text` typed into the address bar
ExplorerNavigateToPath(text) ==
  /\ app = "explorer"
  /\ IF Exists(fs, text) /\ IsDir(fs, text)
     THEN /\ current_path' = text
          /\ address_bar' = text
          /\ status_label' = StatusCounts(fs, text)
          /\ msgs' = <<>>
     ELSE /\ msgs' = <<InvalidPathBox>>
          /\ address_bar' = current_path
          /\ UNCHANGED <<current_path, status_label>>
  /\ last' = RanWith("navigate_to_path", <<>>, [text |-> text])
  /\ uncaught' = "none" /\ launches' = <<>> /\ syscalls' = <<>>
  /\ UNCHANGED <<app, fs, image_lib, tkVars, thumbVars>>

\* go_home
ExplorerGoHome ==
  /\ app = "explorer"
  /\ current_path' = Home
  /\ address_bar' = Home
  /\ status_label' = StatusCounts(fs, Home)
  /\ last' = Ran("go_home", <<>>)
  /\ msgs' = <<>> /\ uncaught' = "none" /\ launches' = <<>> /\ syscalls' = <<>>
  /\ UNCHANGED <<app, fs, image_lib, tkVars, thumbVars>>

\* create_new_folder; the dialog returns (folder_name, ok)
ExplorerCreateNewFolder(folder_name, ok) ==
  /\ app = "explorer"
  /\ Join(current_path, folder_name) \in AllPaths
  /\ LET new_path == Join(current_path, folder_name)
         r == OsMakedirs(fs, new_path, TRUE)
     IN IF ok /\ folder_name # <<>>
        THEN /\ WithinNodes(r.fs)
             /\ fs' = r.fs
             /\ syscalls' = <<Call("makedirs", new_path, new_path, r.exc)>>
             /\ IF r.exc = "none"
                THEN /\ status_label' = StatusAbout("Created folder", folder_name)
                     /\ msgs' = <<>>
                ELSE /\ msgs' = <<Critical("Could not create folder", r.exc)>>
                     /\ UNCHANGED status_label
        ELSE /\ msgs' = <<>> /\ syscalls' = <<>>
             /\ UNCHANGED <<fs, status_label>>
  /\ last' = Ran("create_new_folder", <<>>)
  /\ uncaught' = "none" /\ launches' = <<>>
  /\ UNCHANGED <<app, current_path, address_bar, image_lib, tkVars, thumbVars>>

NoSelectionBox ==
  Box("warning", "No Selection", "Please select an item to delete.", "")

\* delete_item; valid: the list view has a current index, path: the entry it
\* names (the view may still show an entry another process has removed);
\* yes: the answer to the confirmation box
ExplorerDeleteItem(valid, path, yes) ==
  /\ app = "explorer"
  /\ path # Root /\ Parent(path) = Resolve(current_path)
  /\ last' = IF valid THEN RanWith("delete_item", <<>>, [item |-> path, yes |-> yes])
             ELSE Ran("delete_item", <<>>)
  /\ IF ~valid
     THEN /\ msgs' = <<NoSelectionBox>> /\ syscalls' = <<>>
          /\ UNCHANGED <<fs, status_label>>
     ELSE IF yes
     THEN \E r \in DeleteOutcomes(fs, path) :
            /\ fs' = r.fs
            /\ syscalls' = <<Call(DeleteCall(fs, path), path, path, r.exc)>>
            /\ IF r.exc = "none"
               THEN /\ status_label' = StatusAbout("Deleted", Basename(path))
                    /\ msgs' = <<>>
               ELSE /\ msgs' = <<Critical("Could not delete item", r.exc)>>
                    /\ UNCHANGED status_label
     ELSE /\ msgs' = <<>> /\ syscalls' = <<>>
          /\ UNCHANGED <<fs, status_label>>
  /\ uncaught' = "none" /\ launches' = <<>>
  /\ UNCHANGED <<app, current_path, address_bar, image_lib, tkVars, thumbVars>>

\* the handlers, on the entries the views can show, drawn from paths
ExplorerNavNext(paths) ==
  \/ ExplorerGoUp
  \/ \E path \in paths, open_ok, shell \in BOOLEAN :
       ExplorerDoubleClicked(path, open_ok, shell)

ExplorerOpsNext(typed, paths) ==
  \/ \E folder_name \in typed, ok \in BOOLEAN : ExplorerCreateNewFolder(folder_name, ok)
  \/ \E path \in paths, yes \in BOOLEAN : ExplorerDeleteItem(TRUE, path, yes)
  \/ \E path \in paths : ExplorerDeleteItem(FALSE, path, FALSE)

ExplorerNext == ExplorerNavNext(AllPaths) \/ ExplorerOpsNext(Names \cup {<<>>}, AllPaths)

\* ------------------------------------------------------------------ PySide variant (files - Copy.py)
\* __init__: the icon view is rooted at the home directory
PysideInit ==
  /\ app = "pyside"
  /\ IsDir(fs, Home)
  /\ current_path = Home
  /\ last = Ran("__init__", <<>>)
  /\ msgs = <<>> /\ uncaught = "none" /\ launches = <<>> /\ syscalls = <<>>
  /\ tree_rows = <<>> /\ list_items = <<>> /\ preview = NoPreview
  /\ address_bar = Root /\ status_label = StatusText("")
  /\ cache = EmptyMap /\ decode_calls = EmptyMap /\ image_lib = TRUE
  /\ clipboard_paths = <<>> /\ cut_mode = FALSE

\* on_up: os.path.dirname of an absolute path is never empty
PysideOnUp ==
  /\ app = "pyside"
  /\ current_path' = Parent(current_path)
  /\ last' = Ran("on_up", <<>>)
  /\ msgs' = <<>> /\ uncaught' = "none" /\ launches' = <<>> /\ syscalls' = <<>>
  /\ UNCHANGED <<app, fs, address_bar, image_lib, status_label, tkVars, thumbVars>>

\* on_tree_selection: the tree shows every entry below the home directory,
\* and the icon view is rooted at whatever is selected
PysideTreeSelection(path) ==
  /\ app = "pyside"
  /\ Exists(fs, path) /\ path \in AllPaths /\ IsPrefix(Home, path) /\ path # Home
  /\ current_path' = path
  /\ last' = RanWith("on_tree_selection", <<>>, [item |-> path])
  /\ msgs' = <<>> /\ uncaught' = "none" /\ launches' = <<>> /\ syscalls' = <<>>
  /\ UNCHANGED <<app, fs, address_bar, image_lib, status_label, tkVars, thumbVars>>

\* on_icon_clicked on the entry at path
PysideIconClicked(path) ==
  /\ app = "pyside"
  /\ Exists(fs, path) /\ Parent(path) = current_path /\ path # Root
  /\ IF IsDir(fs, path)
     THEN /\ current_path' = path
          /\ UNCHANGED preview
     ELSE /\ preview' = IF fs[path].kind = "file" THEN path ELSE CannotPreview
          /\ UNCHANGED current_path
  /\ last' = Ran("on_icon_clicked", <<>>)
  /\ msgs' = <<>> /\ uncaught' = "none" /\ launches' = <<>> /\ syscalls' = <<>>
  /\ UNCHANGED <<app, fs, address_bar, image_lib, status_label, tkVars, list_items,
                 cache, decode_calls, clipboard_paths, cut_mode>>

\* on_context_menu on the entry at path (the view may still show an entry
\* another process has removed); act: the menu entry chosen, "" for none;
\* refresh_ok: self.model.refresh() returns rather than raises; the opener
\* is called outside any try block
PysideContextMenu(path, act, refresh_ok, open_ok, shell) ==
  /\ app = "pyside"
  /\ path # Root /\ Parent(path) = current_path
  /\ IF act = "Open"
     THEN /\ IF IsDir(fs, path)
             THEN current_path' = path /\ launches' = <<>>
             ELSE launches' = OpenWithDefaultApp(path, shell) /\ UNCHANGED current_path
          /\ uncaught' = IF ~IsDir(fs, path) /\ OpenRaises(shell, open_ok)
                         THEN "OSError" ELSE "none"
          /\ msgs' = <<>> /\ syscalls' = <<>>
          /\ UNCHANGED fs
     ELSE IF act = "Delete"
     THEN \E r \in DeleteOutcomes(fs, path) :
            /\ fs' = r.fs
            /\ syscalls' = <<Call(DeleteCall(fs, path), path, path, r.exc)>>
            /\ msgs' = IF r.exc # "none" THEN <<Warning("Delete failed", r.exc)>>
                       ELSE IF ~refresh_ok
                       THEN <<Warning("Delete failed", "AttributeError")>>
                       ELSE <<>>
            /\ launches' = <<>> /\ uncaught' = "none"
            /\ UNCHANGED current_path
     ELSE /\ msgs' = <<>> /\ syscalls' = <<>> /\ launches' = <<>>
          /\ uncaught' = "none"
          /\ UNCHANGED <<fs, current_path>>
  /\ last' = IF act = "Open" THEN RanWith("on_context_menu", <<>>, [item |-> path])
             ELSE Ran("on_context_menu", <<>>)
  /\ UNCHANGED <<app, address_bar, image_lib, status_label, tkVars, thumbVars>>

\* the handlers, on the entries the view can show, drawn from paths; only
\* Open reads open_ok and shell, only Delete reads refresh_ok
PysideNext(paths) ==
  \/ PysideOnUp
  \/ \E path \in paths : PysideIconClicked(path)
  \/ \E path \in paths, open_ok, shell \in BOOLEAN :
       PysideContextMenu(path, "Open", TRUE, open_ok, shell)
  \/ \E path \in paths, refresh_ok \in BOOLEAN :
       PysideContextMenu(path, "Delete", refresh_ok, TRUE, TRUE)
  \/ \E path \in paths, act \in {"Rename", ""} :
       PysideContextMenu(path, act, TRUE, TRUE, TRUE)

\* the handlers that only navigate and list
ThumbListNext ==
  \/ \E path \in AllPaths : ThumbTreeClicked(path)
  \/ ThumbGoUp
  \/ ThumbRefresh
  \/ \E i \in 1..Len(list_items), open_ok, shell \in BOOLEAN : ThumbOpenItem(i, open_ok, shell)

\* the handlers that change the filesystem, with the names typed into their
\* dialogs drawn from typed; posix is read only where os.rename is reached:
\* by a rename that has a name to use, and by a paste in cut mode
ThumbOpsNext(typed) ==
  \/ \E i \in 1..Len(list_items) : ThumbCopy(i)
  \/ \E i \in 1..Len(list_items), new_name \in typed \ {<<>>}, posix \in BOOLEAN :
       ThumbRenameItem(i, new_name, TRUE, posix)
  \/ \E i \in 1..Len(list_items), new_name \in typed \cap {<<>>} :
       ThumbRenameItem(i, new_name, TRUE, TRUE)
  \/ \E i \in 1..Len(list_items), new_name \in typed : ThumbRenameItem(i, new_name, FALSE, TRUE)
  \/ \E i \in 1..Len(list_items), yes \in BOOLEAN : ThumbDeleteItem(i, yes)
  \/ \E name \in typed, ok \in BOOLEAN : ThumbCreateFolder(name, ok)
  \/ \E posix \in (IF cut_mode THEN BOOLEAN ELSE {TRUE}) : ThumbPaste(posix)

ThumbNext ==
  \/ ThumbListNext
  \/ \E path \in AllPaths : ThumbAddressEntered(path)
  \/ ThumbOpsNext(Names \cup {<<>>})

TkNext ==
  \/ TkGoUp
  \/ \E sel \in 0..Len(tree_rows), open_ok \in BOOLEAN : TkDoubleClick(sel, open_ok)

External == \E p \in AllPaths : ExternalRemove(p)

\* ------------------------------------------------------------------ the whole system
Init ==
  /\ fs \in InitFilesystems
  /\ app \in {"tk", "thumb", "explorer", "pyside"}
  /\ \/ TkInit
     \/ ThumbInit
     \/ ExplorerInit
     \/ PysideInit

Next ==
  \/ External
  \/ TkNext
  \/ ThumbNext
  \/ ExplorerNext
  \/ PysideNext(AllPaths)

Spec == Init /\ [][Next]_vars


\* ------------------------------------------------------------------ listing specification
\* The two variants that build their own listing, over every filesystem of at
\* most MaxNodes entries, with the handlers that navigate and list.
InitList ==
  /\ fs \in InitFilesystems
  /\ app \in {"tk", "thumb"}
  /\ \/ TkInit
     \/ ThumbInit

NextList ==
  \/ External
  \/ TkNext
  \/ ThumbListNext

SpecList == InitList /\ [][NextList]_vars

\* ------------------------------------------------------------------ file-operation specification
\* The three variants that change the filesystem, from every filesystem of at
\* most MaxSeedNodes entries, growing to at most MaxNodes entries.  No name
\* there holds a quote, so os.system launches what os.startfile launches: the
\* opener of the thumbnail variant is the one that can raise or not.
TypedNames == {NameUpperA, <<>>}

\* the entries a view can show there: those over the names an entry can have
OpsPaths == PathsOver(SeedNames)

InitOps ==
  /\ fs \in SeedFilesystems
  /\ app \in {"thumb", "explorer", "pyside"}
  /\ \/ ThumbInit
     \/ ExplorerInit
     \/ PysideInit
  /\ image_lib

NextOps ==
  \/ External
  \/ ThumbGoUp
  \/ \E i \in 1..Len(list_items), open_ok \in BOOLEAN : ThumbOpenItem(i, open_ok, FALSE)
  \/ ThumbOpsNext(TypedNames)
  \/ ExplorerNavNext(OpsPaths)
  \/ ExplorerOpsNext(TypedNames, OpsPaths)
  \/ PysideNext(OpsPaths)

SpecOps == InitOps /\ [][NextOps]_vars

\* ------------------------------------------------------------------ paste() on its own
\* paste() reads self.clipboard_paths, self.cut_mode and self.current_path.
\* The context menu only ever stores one path and cut_mode False; here
\* paste() runs from every clipboard of at most MaxClip entries of the
\* filesystem, in either mode, in every directory.
PasteFilesystems == FilesystemsUpTo(MaxPasteNodes, SeedNames)

ClipboardsUpTo(n, f) ==
  UNION { [1..k -> {p \in PathsOver(SeedNames) \ {Root} : Exists(f, p)}] : k \in 0..n }

InitPaste ==
  /\ fs \in PasteFilesystems
  /\ app = "thumb"
  /\ image_lib = TRUE
  /\ current_path \in Dirs(fs) /\ address_bar = current_path
  /\ clipboard_paths \in ClipboardsUpTo(MaxClip, fs)
  /\ cut_mode \in BOOLEAN
  /\ \E r \in PopulateOutcomes(fs, current_path, EmptyMap, EmptyMap, image_lib) :
       list_items = r.items /\ cache = r.cache /\ decode_calls = r.calls
       /\ msgs = r.msgs
  /\ last = Ran("populate_list", <<current_path>>)
  /\ uncaught = "none" /\ launches = <<>> /\ syscalls = <<>>
  /\ tree_rows = <<>> /\ preview = NoPreview
  /\ status_label = StatusText("")

NextPaste ==
  \/ External
  \/ \E posix \in BOOLEAN : ThumbPaste(posix)

SpecPaste == InitPaste /\ [][NextPaste]_vars

\* ------------------------------------------------------------------ thumbnail-cache specification
\* The thumbnail variant over filesystems that hold pictures, with the
\* handlers that list, rename and delete, while other processes rewrite and
\* remove files.
CacheNames == {NameLowerA, NameBPng}
CacheFilesystems == FilesystemsUpTo(MaxCacheNodes, CacheNames)

InitCache ==
  /\ fs \in CacheFilesystems
  /\ app = "thumb"
  /\ ThumbInit

NextCache ==
  \/ External
  \/ \E p \in AllPaths, node \in InitNodes : ExternalModify(p, node)
  \/ ThumbListNext
  \/ \E i \in 1..Len(list_items), new_name \in CacheNames, ok, posix \in BOOLEAN :
       ThumbRenameItem(i, new_name, ok, posix)
  \/ \E i \in 1..Len(list_items), yes \in BOOLEAN : ThumbDeleteItem(i, yes)

SpecCache == InitCache /\ [][NextCache]_vars

\* ------------------------------------------------------------------ navigation specification
\* The four variants with the handlers that navigate and open, on
\* filesystems no other process changes.  The texts typed into an address
\* bar: every path, "." , and a directory's path followed by a blank.
NavNames == {NameLowerA, NameBPng, NameQuote}
NavFilesystems == FilesystemsUpTo(MaxNavNodes, NavNames)

TypedTexts(f) ==
  PathsOver(NavNames) \cup {<<Dot>>} \cup {Padded(p) : p \in Dirs(f)}

InitNav ==
  /\ fs \in NavFilesystems
  /\ app \in {"tk", "thumb", "explorer", "pyside"}
  /\ \/ TkInit
     \/ ThumbInit
     \/ ExplorerInit
     \/ PysideInit

NextNav ==
  \/ TkNext
  \/ ThumbListNext
  \/ \E text \in TypedTexts(fs) : ThumbAddressEntered(text)
  \/ ExplorerNavNext(AllPaths)
  \/ \E path \in AllPaths : ExplorerTreeClicked(path)
  \/ \E text \in TypedTexts(fs) : ExplorerNavigateToPath(text)
  \/ ExplorerGoHome
  \/ PysideOnUp
  \/ \E path \in AllPaths : PysideTreeSelection(path)
  \/ \E path \in AllPaths : PysideIconClicked(path)
  \/ \E path \in AllPaths, open_ok, shell \in BOOLEAN :
       PysideContextMenu(path, "Open", TRUE, open_ok, shell)

SpecNav == InitNav /\ [][NextNav]_vars

\* ------------------------------------------------------------------ properties of the listing
\* the directory the last handler listed, when it listed one and nothing
\* has touched the filesystem since
Listed == last.listed # <<>>
ListedDir == last.listed[1]

\* the names on display, top to bottom
ShownNames ==
  IF app = "tk" THEN [i \in 1..Len(tree_rows) |-> tree_rows[i].name]
  ELSE [i \in 1..Len(list_items) |-> list_items[i].name]

\* names holds exactly the children of p, each once, directories first, each
\* group in non-decreasing order of lower-cased name
DirsFirstByLowerName(names, f, p) ==
  /\ {names[i] : i \in 1..Len(names)} = ChildNames(f, p)
  /\ Len(names) = Cardinality(ChildNames(f, p))
  /\ \A i, j \in 1..Len(names) :
       i < j =>
         /\ IsDir(f, Join(p, names[j])) => IsDir(f, Join(p, names[i]))
         /\ (IsDir(f, Join(p, names[i])) <=> IsDir(f, Join(p, names[j])))
              => ~StrLess(LowerStr(names[j]), LowerStr(names[i]))

\* C1: after refresh_file_list (tk) or populate_list (thumb) has listed a
\* readable directory, the view holds exactly the directory's child names,
\* each once, every directory before every non-directory, and each of the
\* two groups in non-decreasing order of lower-cased name.
C1_ListingSortedAndComplete ==
  (Listed /\ ListError(fs, ListedDir) = "none")
    => DirsFirstByLowerName(ShownNames, fs, ListedDir)

\* a listing of the root in which lower-casing decides the order of two
\* directories ("B.PNG" < "a" as raw strings) and a capital-letter file
\* comes after both
C1_Witness ==
  /\ last.op = "go_up"
  /\ Listed /\ ListedDir = Root /\ ListError(fs, Root) = "none"
  /\ IsDir(fs, <<NameLowerA>>) /\ IsDir(fs, <<NameBPng>>)
  /\ fs[<<NameUpperA>>].kind = "file"
  /\ ShownNames = <<NameLowerA, NameBPng, NameUpperA>>

\* ------------------------------------------------------------------ properties of the thumbnail cache
\* the bitmap an item shows is the one the cache holds for its path
ShowsCached(item) ==
  (IsImageName(item.name) /\ item.icon # ThemePixmap("folder"))
    => /\ CacheKey(item.path) \in DOMAIN cache
       /\ item.icon = cache[CacheKey(item.path)]

DecodedOncePerKey ==
  /\ DOMAIN decode_calls = DOMAIN cache
  /\ \A k \in DOMAIN decode_calls : decode_calls[k] = 1
  /\ \A i \in 1..Len(list_items) : ShowsCached(list_items[i])

StoredBitmapKept ==
  \A k \in DOMAIN cache : k \in DOMAIN cache' /\ cache'[k] = cache[k]

\* C2: over any sequence of ThumbnailCache.get calls on one cache,
\* _make_thumbnail runs at most once for a key (path, thumb_size); every
\* later get returns the bitmap the first call stored, a placeholder included.
C2_DecodedAtMostOnce == []DecodedOncePerKey /\ [][StoredBitmapKept]_vars

\* the current directory was listed again, and a picture-named file in it that
\* failed to decode the first time shows its stored placeholder
C2_Witness ==
  /\ app = "thumb" /\ last.op = "refresh" /\ list_items # <<>>
  /\ \E i \in 1..Len(list_items) :
       /\ fs[list_items[i].path].kind = "file"
       /\ CacheKey(list_items[i].path) \in DOMAIN cache
       /\ decode_calls[CacheKey(list_items[i].path)] = 1
       /\ list_items[i].icon = ThemePixmap("text-x-generic")

IsPlaceholder(pix) == pix.src = "theme"

PlaceholderByCase(pix, f, path, image) ==
  IF ~image \/ ~PilOpens(f, path) THEN pix = ThemePixmap("text-x-generic")
  ELSE IF ~QtLoads(f, path)
  THEN pix \in {ThemePixmap("image-x-generic"), ThemePixmap("text-x-generic")}
  ELSE pix \in {ScaledPixmap(f[path]), ThemePixmap("text-x-generic")}

Unreadable(f, p) == IsDir(f, p) /\ ~f[p].readable

NothingShown == IF app = "tk" THEN tree_rows = <<>> ELSE list_items = <<>>

\* C4: listing a directory that may not be read produces no entries and one
\* error box, and no exception leaves the handler, so the event loop goes on
\* to the next operation.
C4_UnreadableDirReported ==
  (Listed /\ Unreadable(fs, ListedDir)) =>
    /\ NothingShown
    /\ uncaught = "none"
    /\ msgs = IF app = "tk" THEN <<PermissionDeniedBox>>
              ELSE <<ListWarning("PermissionError")>>

\* a double click (tk) or a click in the tree (thumb) entered an unreadable
\* directory
C4_Witness ==
  /\ last.op \in {"on_double_click", "on_tree_clicked"}
  /\ Listed /\ Unreadable(fs, ListedDir)
  /\ msgs # <<>> /\ NothingShown

\* C5: listing a path that is missing or is no directory ends with the error
\* handled and shown to the user: no exception leaves the handler and the
\* empty view does not pass for a successful listing.
C5_MissingDirReported ==
  (Listed /\ ListError(fs, ListedDir) \in {"FileNotFoundError", "NotADirectoryError"}) =>
    /\ uncaught = "none"
    /\ msgs # <<>>
    /\ NothingShown

\* C6: when os.path.getsize fails for an entry that is no directory, its row
\* is still there with the size "N/A" (not a number), and every other child
\* has its row with the size it has: empty for a directory, KB for a file.
C6_SizeFailureShowsNA ==
  (app = "tk" /\ Listed /\ ListError(fs, ListedDir) = "none") =>
    /\ DirsFirstByLowerName(ShownNames, fs, ListedDir)
    /\ \A i \in 1..Len(tree_rows) :
         LET full_path == Join(ListedDir, tree_rows[i].name)
         IN tree_rows[i].size =
              IF IsDir(fs, full_path) THEN SizeEmpty
              ELSE IF GetSizeFails(fs, full_path) THEN SizeNA
              ELSE [tag |-> "KB", tenths |-> KBTenths(fs[full_path].size)]

\* a listing with a dangling link shown as N/A next to a file with its size
C6_Witness ==
  /\ app = "tk" /\ Listed /\ ListError(fs, ListedDir) = "none"
  /\ \E i, j \in 1..Len(tree_rows) :
       /\ fs[Join(ListedDir, tree_rows[i].name)].kind = "link"
       /\ tree_rows[i].size = SizeNA
       /\ fs[Join(ListedDir, tree_rows[j].name)].kind = "file"
       /\ tree_rows[j].size.tag = "KB"

\* ------------------------------------------------------------------ properties of file operations
\* the platform calls that create an entry under a destination name
Creating == {"makedirs", "rename", "copy2", "copytree", "move"}
Deleting == {"remove", "rmtree"}

\* the boxes of the last handler that report a failed operation (a failed
\* listing is reported by populate_list itself)
IsOperationBox(b) == b.text # "Could not list directory"
OperationBoxes(m) == SelectSeq(m, IsOperationBox)

\* the subtree at p is in g what it is in f
SameBelow(f, g, p) == \A q \in AllPaths : IsPrefix(p, q) => g[q] = f[q]

\* a step in which call c targets a destination that exists and is not the
\* source itself: the call fails, a box reports it, the destination is as
\* it was
ConflictRefused(c) ==
  (c.op \in Creating /\ (c.op = "makedirs" \/ c.dst # c.src) /\ Exists(fs, c.dst)) =>
    /\ c.exc # "none"
    /\ OperationBoxes(msgs') # <<>>
    /\ SameBelow(fs, fs', c.dst)

\* C7: when the destination name of a create-folder, rename, copy or move
\* already exists, the handler reports an error and leaves the destination
\* as it was: nothing is overwritten, merged into, or passed off as created.
C7_ExistingDestinationRefused ==
  [][\A i \in 1..Len(syscalls') : ConflictRefused(syscalls'[i])]_vars

\* a step that deletes an entry that is not there: one box with the error,
\* no exception leaves the handler, the filesystem and the view stay
DeleteOfMissingSurfaced(c) ==
  (c.op \in Deleting /\ ~Exists(fs, c.src)) =>
    /\ Len(msgs') = 1 /\ msgs'[1].exc \in {"FileNotFoundError", "NotADirectoryError"}
    /\ uncaught' = "none"
    /\ fs' = fs
    /\ list_items' = list_items /\ current_path' = current_path

\* C8: deleting an entry whose file no longer exists shows the error, lets no
\* exception out of the handler, and leaves the filesystem and the listing
\* on display as they were.
C8_DeleteOfMissingEntry ==
  [][\A i \in 1..Len(syscalls') : DeleteOfMissingSurfaced(syscalls'[i])]_vars

\* the thumbnail view still shows an entry another process removed, and
\* deleting it was answered by one box
C8_Witness ==
  /\ app = "thumb" /\ last.op = "delete_item"
  /\ Len(syscalls) = 1 /\ syscalls[1].op = "remove"
  /\ syscalls[1].exc = "FileNotFoundError"
  /\ ~Exists(fs, syscalls[1].src)
  /\ \E i \in 1..Len(list_items) : list_items[i].path = syscalls[1].src
  /\ Len(msgs) = 1

\* what the platform call c can leave of filesystem f, with the exception raised
Effects(f, c) ==
  IF c.op = "rmtree" THEN RmtreeOutcomes(f, c.src)
  ELSE IF c.op = "remove" THEN {OsRemove(f, c.src)}
  ELSE IF c.op = "rename" THEN {OsRename(f, c.src, c.dst, posix) : posix \in BOOLEAN}
  ELSE IF c.op = "makedirs" THEN {OsMakedirs(f, c.dst, e) : e \in BOOLEAN}
  ELSE IF c.op = "copy2" THEN {ShutilCopy2(f, c.src, c.dst)}
  ELSE IF c.op = "copytree" THEN {ShutilCopytree(f, c.src, c.dst)}
  ELSE {ShutilMove(f, c.src, c.dst, posix) : posix \in BOOLEAN}

\* a step whose one platform call c failed: one box for it, no second call,
\* and the filesystem is what the failed call left
FailureReportedOnce(c) ==
  c.exc # "none" =>
    /\ Len(syscalls') = 1
    /\ Len(OperationBoxes(msgs')) = 1 /\ OperationBoxes(msgs')[1].exc = c.exc
    /\ uncaught' = "none"
    /\ Outcome(fs', c.exc) \in Effects(fs, c)

\* C9: a copy, move, delete, rename or create-folder that fails is reported
\* by one box, the platform call is made once, and the filesystem stays as
\* the failed call left it.
C9_FailureReportedOnceNoRetry ==
  [][\A i \in 1..Len(syscalls') : FailureReportedOnce(syscalls'[i])]_vars

\* rmtree failed inside a directory that is itself listable
C9_Witness ==
  /\ Len(syscalls) = 1 /\ syscalls[1].op = "rmtree"
  /\ syscalls[1].exc = "PermissionError"
  /\ IsDir(fs, syscalls[1].src) /\ fs[syscalls[1].src].readable
  /\ Len(msgs) = 1 /\ msgs[1].exc = "PermissionError"

\* ------------------------------------------------------------------ properties of paste()
\* where call c of paste() puts its source, on filesystem f
Landing(f, c) ==
  IF c.op \in {"copy2", "move"} /\ IsDir(f, c.dst) /\ c.src # c.dst
  THEN Join(c.dst, Basename(c.src)) ELSE c.dst

\* among the calls of one paste(): call j failed and an earlier call i succeeded
FailedAfter(calls, i, j) ==
  i < j /\ calls[i].exc = "none" /\ calls[j].exc # "none"

\* no other call of the same paste() touches the source or the destination
\* of call i: none shares its base name, and none that succeeded took away
\* a directory above them
Undisturbed(calls, i) ==
  \A k \in 1..Len(calls) :
    k # i =>
      /\ Basename(calls[k].src) # Basename(calls[i].src)
      /\ calls[k].exc = "none" =>
           ~IsPrefix(calls[k].src, calls[i].dst) /\ ~IsPrefix(calls[k].src, calls[i].src)

\* after the step, the source of call c is where paste() put it, and a moved
\* source is gone from where it was
StaysPasted(c) ==
  LET land == Landing(fs, c)
  IN /\ fs'[land] = fs[c.src]
     /\ (c.op = "move" /\ land # c.src) => ~Exists(fs', c.src)
     /\ c.op # "move" => fs'[c.src] = fs[c.src]

OneBitmapPerKey ==
  /\ \A k \in DOMAIN cache : k[2] = thumb_size /\ cache[k] # NullPixmap
  /\ \A k1, k2 \in DOMAIN cache : k1[1] = k2[1] => k1 = k2

\* a step removes no key and replaces no bitmap
CacheOnlyGrows ==
  /\ DOMAIN cache \subseteq DOMAIN cache'
  /\ StoredBitmapKept

\* C11: the thumbnail cache holds at most one bitmap per (path, size) key,
\* and no step (a get for any path, a refresh, or the file being rewritten,
\* renamed or deleted) removes a stored key or replaces its bitmap: the set
\* of keys only grows.
C11_CacheNeverInvalidated == []OneBitmapPerKey /\ [][CacheOnlyGrows]_vars

\* a refresh after another process rewrote a cached picture: the item still
\* shows the bitmap decoded from the old bytes
C11_Witness ==
  /\ app = "thumb" /\ last.op = "refresh"
  /\ \E i \in 1..Len(list_items) :
       /\ list_items[i].icon.src = "file"
       /\ fs[list_items[i].path].kind = "file"
       /\ list_items[i].icon.content # fs[list_items[i].path]
       /\ cache[CacheKey(list_items[i].path)] = list_items[i].icon

\* ------------------------------------------------------------------ properties of repeated listings
\* a step lists again the directory the step before listed, on the same
\* filesystem
ListsAgain == Listed /\ last'.listed = last.listed /\ fs' = fs

\* C12: two listings of the same directory with no filesystem change in
\* between show the same entries in the same order.
C12_RelistingIdentical == [][ListsAgain => ShownNames' = ShownNames]_vars

\* ------------------------------------------------------------------ properties of opening
\* the step is an open action (double click, or Open in a menu) on item
OpenActions == {"on_double_click", "open_item", "on_item_double_clicked", "on_context_menu"}
IsOpenAction ==
  /\ last'.op \in OpenActions /\ Len(last'.input) = 1
  /\ Exists(fs, last'.input[1].item)
OpenedItem == last'.input[1].item

\* C13: an open action on an entry that is no directory starts the system
\* opener once, with that entry's path, and leaves current_path alone; on a
\* directory it starts nothing and current_path becomes the directory.
C13_OpenLaunchesOnce ==
  [][IsOpenAction =>
       IF IsDir(fs, OpenedItem)
       THEN launches' = <<>> /\ current_path' = OpenedItem
       ELSE launches' = <<OpenedItem>> /\ current_path' = current_path]_vars

\* ------------------------------------------------------------------ properties of listing as a read
\* the step was taken by a handler of the program, not by another process
ByHandler == last'.op # "external"

\* after the step every entry on display is a direct child of the directory
\* the step listed
OnlyDirectChildren ==
  Listed' =>
    /\ \A i \in 1..Len(ShownNames') : Exists(fs', Join(ListedDir', ShownNames'[i]))
    /\ app = "thumb" =>
         \A i \in 1..Len(list_items') :
           list_items'[i].path = Join(ListedDir', list_items'[i].name)

\* C14: a handler that lists a directory leaves every filesystem entry as it
\* was, and what it shows are direct children of the listed directory only,
\* nothing from inside its subdirectories.
C14_ListingReadsOnly == [][ByHandler => (fs' = fs /\ OnlyDirectChildren)]_vars

\* a directory was listed that holds a subdirectory with an entry of its own,
\* whose name is not on display
C14_Witness ==
  /\ Listed /\ ListError(fs, ListedDir) = "none"
  /\ last.op \in {"go_up", "refresh"}
  /\ \E i \in 1..Len(ShownNames) :
       LET sub == Join(ListedDir, ShownNames[i])
       IN /\ IsDir(fs, sub)
          /\ \E g \in ChildNames(fs, sub) : \A j \in 1..Len(ShownNames) : ShownNames[j] # g

\* ------------------------------------------------------------------ properties of the rows
\* the row's type names its kind, and only a non-directory whose size could
\* be read carries a size
RowLabelled(row, f, full_path) ==
  /\ row.type = (IF IsDir(f, full_path) THEN "Folder" ELSE "File")
  /\ row.size.tag = "KB" <=> (~IsDir(f, full_path) /\ ~GetSizeFails(f, full_path))
  /\ IsDir(f, full_path) => row.size = SizeEmpty

\* C15: in every listing of refresh_file_list a row is typed "Folder" exactly
\* when its entry is a directory and "File" otherwise; a size is shown only
\* for a non-directory whose size could be read, never for a directory.
C15_RowsLabelledByKind ==
  (app = "tk" /\ Listed /\ ListError(fs, ListedDir) = "none") =>
    \A i \in 1..Len(tree_rows) :
      RowLabelled(tree_rows[i], fs, Join(ListedDir, tree_rows[i].name))

\* one listing with a folder without a size, a file with its size and a file
\* whose size could not be read
C15_Witness ==
  /\ app = "tk" /\ Listed /\ ListError(fs, ListedDir) = "none"
  /\ last.op = "go_up"
  /\ \E i, j, k \in 1..Len(tree_rows) :
       /\ tree_rows[i].type = "Folder" /\ tree_rows[i].size = SizeEmpty
       /\ tree_rows[j].type = "File" /\ tree_rows[j].size.tag = "KB"
       /\ tree_rows[k].type = "File" /\ tree_rows[k].size = SizeNA

\* ------------------------------------------------------------------ properties of navigation
\* the step is a navigation by a text typed into the address bar
IsTypedNav == last'.op \in {"on_address_entered", "navigate_to_path"}
TypedText == last'.input[1].text

\* C16: when the typed text names an existing directory, current_path
\* becomes that path; otherwise a warning is shown and current_path stays;
\* either way the address bar then shows current_path.
C16_TypedPathNavigates ==
  [][IsTypedNav =>
       /\ IF IsDir(fs, TypedText)
          THEN current_path' = TypedText
          ELSE msgs' # <<>> /\ current_path' = current_path
       /\ address_bar' = current_path']_vars

\* the step is a go_up (on_up in the PySide variant)
IsGoUp == last'.op \in {"go_up", "on_up"}

\* the directory above the one q names; the root has none above it
DirAbove(q) == IF q = Root THEN Root ELSE SubSeq(q, 1, Len(q) - 1)

\* current_path after n more go_up steps
RECURSIVE UpTimes(_, _)
UpTimes(p, n) == IF n = 0 THEN p ELSE UpTimes(Parent(p), n - 1)

\* C17: go_up sets current_path to the directory above it, and leaves it
\* alone at the filesystem root; so from wherever the program is, finitely
\* many go_up steps end at the root and stay there.
C17_GoUpReachesRoot ==
  /\ [](UpTimes(current_path, MaxDepth + 1) = Root)
  /\ [][IsGoUp => Resolve(current_path') = DirAbove(Resolve(current_path))]_vars

\* C18: with no other process changing the filesystem, current_path names
\* an existing directory after every navigation, never a regular file and
\* never a path that does not exist.
C18_CurrentPathIsDirectory ==
  app \in {"tk", "thumb", "explorer"} => IsDir(fs, current_path)

\* ------------------------------------------------------------------ properties of deleting
\* the handler of the step asked about item and was answered Yes
ConfirmedFor(item) ==
  /\ Len(last'.input) = 1
  /\ last'.input[1].item = item
  /\ last'.input[1].yes

\* the handler of the step asked and was answered No
Declined == last'.op = "delete_item" /\ Len(last'.input) = 1 /\ ~last'.input[1].yes

\* C19: a delete handler calls the platform to remove an entry only after
\* the user answered Yes to the question about that entry; after No the
\* filesystem and the listing on display are as before.
C19_DeleteOnlyAfterYes ==
  [][/\ \A i \in 1..Len(syscalls') :
          (syscalls'[i].op \in Deleting /\ Exists(fs, syscalls'[i].src))
            => ConfirmedFor(syscalls'[i].src)
     /\ Declined => (fs' = fs /\ list_items' = list_items /\ syscalls' = <<>>)]_vars

\* ------------------------------------------------------------------ properties of the clipboard
\* a paste() step only copies, and every clipboard path that was there
\* before it is there after it, the same entry
PasteKeepsSources ==
  last'.op = "paste" =>
    /\ \A i \in 1..Len(syscalls') : syscalls'[i].op \in {"copy2", "copytree"}
    /\ \A i \in 1..Len(clipboard_paths) :
         Exists(fs, clipboard_paths[i]) =>
           Node(fs', clipboard_paths[i]) = Node(fs, clipboard_paths[i])

\* C20: in the thumbnail variant cut_mode is False in every reachable state,
\* so paste() only copies: a path put on the clipboard is still at its place
\* after the paste.
C20_PasteOnlyCopies ==
  /\ [](app = "thumb" => cut_mode = FALSE)
  /\ [][PasteKeepsSources]_vars

\* a file was copied by Copy and Paste into another directory and is still
\* where it was
C20_Witness ==
  /\ app = "thumb" /\ last.op = "paste" /\ cut_mode = FALSE
  /\ Len(syscalls) = 1 /\ syscalls[1].op = "copy2" /\ syscalls[1].exc = "none"
  /\ syscalls[1].dst # syscalls[1].src
  /\ Exists(fs, syscalls[1].src)
  /\ fs[syscalls[1].dst] = fs[syscalls[1].src]

\* ------------------------------------------------------------------ properties of the enumeration order
\* the names the view of directory d would show when the platform
\* enumerates the children of d in the order `order`
NamesShownFor(d, order) ==
  IF app = "tk"
  THEN LET rows == TkRefresh(fs, d, order).rows
       IN [i \in 1..Len(rows) |-> rows[i].name]
  ELSE LET items == PopulateList(fs, d, order, cache, decode_calls, image_lib, TRUE).items
       IN [i \in 1..Len(items) |-> items[i].name]

\* two children of d of the same kind whose names differ only in letter case
CaseTwins(d) ==
  \E x, y \in ChildNames(fs, d) :
    /\ x # y /\ LowerStr(x) = LowerStr(y)
    /\ IsDir(fs, Join(d, x)) <=> IsDir(fs, Join(d, y))

\* C21: the listing of the directory on display is the same for every order
\* in which the platform may enumerate its children, also when two children
\* of the same kind have names that differ only in letter case.
C21_OrderFromChildrenAlone ==
  \A o1, o2 \in Orders(ChildNames(fs, current_path)) :
    NamesShownFor(current_path, o1) = NamesShownFor(current_path, o2)
====
